---- MODULE Spec2Model ----
(***************************************************************************)
(* EstimNetDirected: the graph store, the improved fixed density (IFD)     *)
(* sampler, Algorithm S / Algorithm EE and the estimation and simulation   *)
(* drivers, as a state machine.                                            *)
(*                                                                         *)
(* Floating point values that only feed the Metropolis test                *)
(* urand() < exp(total) are not tracked: the outcome of the test is an     *)
(* input of each proposal (both outcomes are drawn).                       *)
(***************************************************************************)
EXTENDS Integers, Sequences, FiniteSets, TLC

VARIABLES cfg, g, isDelete, pc, smp, alg, out

vars == <<cfg, g, isDelete, pc, smp, alg, out>>

(***************************************************************************)
(* Bounds of the model                                                     *)
(***************************************************************************)
MaxNodes == 3        \* largest node count of a loaded graph
MaxInitArcs == 2     \* longest arc list of a loaded graph
MaxSamplerSteps == 2 \* largest samplerSteps (sampler_m) of a configuration
MaxSsteps == 2       \* largest Ssteps (M1) of a configuration
MaxEEsteps == 1      \* largest EEsteps (Mouter) of a configuration
MaxEEinnerSteps == 2 \* largest EEinnerSteps (Minner) of a configuration
MaxGraphArcs == 4    \* most arcs of a graph built by SpecGraph
MaxParamsOfAKind == 1 \* most attribute, dyadic, interaction parameters each

(***************************************************************************)
(* Graph store.  digraph.h declares the structure and the operations; the  *)
(* bodies of the operations follow section 4.1 of the specification.       *)
(***************************************************************************)
NodesOf(n) == 0 .. (n - 1)

Nodes == NodesOf(cfg.num_nodes)

\* snowball zones: without a zone file every node is in zone 0; the "single"
\* zone file puts every node in zone 0; the "waves" zone file puts node i in
\* wave i.
zone(i) == IF cfg.zone_filename = "waves" THEN i ELSE 0

max_zone == IF cfg.zone_filename = "waves" THEN cfg.num_nodes - 1 ELSE 0

inner_nodes == {i \in Nodes : zone(i) < max_zone}

\* citation terms: node 0 is of the first term, all others of the last term
term(i) == IF i = 0 THEN 0 ELSE 1

max_term == IF cfg.num_nodes > 1 THEN 1 ELSE 0

maxterm_nodes == {i \in Nodes : term(i) = max_term}

isInnerArc(i, j) == i \in inner_nodes /\ j \in inner_nodes

EmptyGraph(n) ==
  [ num_arcs |-> 0,
    outdegree |-> [i \in NodesOf(n) |-> 0],
    arclist |-> [i \in NodesOf(n) |-> <<>>],
    indegree |-> [i \in NodesOf(n) |-> 0],
    revarclist |-> [i \in NodesOf(n) |-> <<>>],
    mixTwoPathMatrix |-> [p \in NodesOf(n) \X NodesOf(n) |-> 0],
    inTwoPathMatrix |-> [p \in NodesOf(n) \X NodesOf(n) |-> 0],
    outTwoPathMatrix |-> [p \in NodesOf(n) \X NodesOf(n) |-> 0],
    allarcs |-> <<>>,
    num_inner_arcs |-> 0,
    allinnerarcs |-> <<>>,
    prev_wave_degree |-> [i \in NodesOf(n) |-> 0],
    num_maxtermsender_arcs |-> 0,
    all_maxtermsender_arcs |-> <<>> ]

Range(s) == {s[k] : k \in 1 .. Len(s)}

\* isArc scans the out-neighbour list of i
isArc(gr, i, j) == \E k \in 1 .. gr.outdegree[i] : gr.arclist[i][k] = j

OutNbrs(gr, i) == {gr.arclist[i][k] : k \in 1 .. gr.outdegree[i]}

InNbrs(gr, i) == {gr.revarclist[i][k] : k \in 1 .. gr.indegree[i]}

\* the list s with the entry at position k replaced by the last entry and the
\* list shortened by one (O(1) swap-with-last removal)
SwapRemove(s, k) ==
  [x \in 1 .. (Len(s) - 1) |-> IF x = k THEN s[Len(s)] ELSE s[x]]

IndexOf(s, v) == CHOOSE k \in 1 .. Len(s) : s[k] = v

\* Bump that leaves out the mixed two-paths k->i->j through in-neighbours of i
Bump_oneMixedLeg(gr, i, j, inc, p) ==
  LET a == p[1]
      b == p[2]
  IN  [ mix |-> gr.mixTwoPathMatrix[p]
                  + (IF a = i /\ b \in OutNbrs(gr, j) THEN inc ELSE 0),
        in |-> gr.inTwoPathMatrix[p]
                  + (IF a = i /\ b \in InNbrs(gr, j) THEN inc ELSE 0)
                  + (IF b = i /\ a \in InNbrs(gr, j) THEN inc ELSE 0),
        out |-> gr.outTwoPathMatrix[p]
                  + (IF a = j /\ b \in OutNbrs(gr, i) THEN inc ELSE 0)
                  + (IF b = j /\ a \in OutNbrs(gr, i) THEN inc ELSE 0) ]

\* the counters of the pair p after arc i->j is added (inc = 1) or removed
\* (inc = -1)
Bump(gr, i, j, inc, p) ==
  LET a == p[1]
      b == p[2]
  IN  [ mix |-> gr.mixTwoPathMatrix[p]
                  + (IF a = i /\ b \in OutNbrs(gr, j) THEN inc ELSE 0)
                  + (IF b = j /\ a \in InNbrs(gr, i) THEN inc ELSE 0),
        in |-> gr.inTwoPathMatrix[p]
                  + (IF a = i /\ b \in InNbrs(gr, j) THEN inc ELSE 0)
                  + (IF b = i /\ a \in InNbrs(gr, j) THEN inc ELSE 0),
        out |-> gr.outTwoPathMatrix[p]
                  + (IF a = j /\ b \in OutNbrs(gr, i) THEN inc ELSE 0)
                  + (IF b = j /\ a \in OutNbrs(gr, i) THEN inc ELSE 0) ]

\* The localised delta routine, evaluated on the graph WITHOUT arc i->j
\* (before the arc is added on insert, after it is removed on delete):
\* mixTwoPath[i,k] for k in out-neighbours(j), mixTwoPath[k,j] for k in
\* in-neighbours(i); in-two-paths i->j<-k for k in in-neighbours(j);
\* out-two-paths j<-i->k for k in out-neighbours(i).
updateTwoPathsMatrices(gr, i, j, isAdd) ==
  LET inc == IF isAdd THEN 1 ELSE -1
  IN  [ gr EXCEPT
          !.mixTwoPathMatrix = [p \in DOMAIN @ |-> Bump(gr, i, j, inc, p).mix],
          !.inTwoPathMatrix = [p \in DOMAIN @ |-> Bump(gr, i, j, inc, p).in],
          !.outTwoPathMatrix = [p \in DOMAIN @ |-> Bump(gr, i, j, inc, p).out] ]

insertArc(gr, i, j) ==
  LET g1 == updateTwoPathsMatrices(gr, i, j, TRUE)
  IN  [ g1 EXCEPT
          !.num_arcs = @ + 1,
          !.arclist[i] = Append(@, j),
          !.outdegree[i] = @ + 1,
          !.revarclist[j] = Append(@, i),
          !.indegree[j] = @ + 1 ]

removeArc(gr, i, j) ==
  LET g1 == [ gr EXCEPT
                !.num_arcs = @ - 1,
                !.arclist[i] = SwapRemove(@, IndexOf(@, j)),
                !.outdegree[i] = @ - 1,
                !.revarclist[j] = SwapRemove(@, IndexOf(@, i)),
                !.indegree[j] = @ - 1 ]
  IN  updateTwoPathsMatrices(g1, i, j, FALSE)

\* insert/remove WITH the flat arc list: insert appends, remove overwrites
\* entry arcidx with the last entry (indices are 1-based here, 0-based in C)
insertArc_allarcs(gr, i, j) ==
  [ insertArc(gr, i, j) EXCEPT !.allarcs = Append(@, <<i, j>>) ]

removeArc_allarcs(gr, i, j, arcidx) ==
  removeArc([gr EXCEPT !.allarcs = SwapRemove(@, arcidx)], i, j)

\* prev_wave_degree counts the ties of a node to the immediately preceding
\* wave, ignoring direction
WaveDelta(pwd, i, j, inc) ==
  [ v \in DOMAIN pwd |->
      pwd[v] + (IF (v = i /\ zone(i) = zone(j) + 1) \/ (v = j /\ zone(j) = zone(i) + 1)
                THEN inc ELSE 0) ]

insertArc_allinnerarcs(gr, i, j) ==
  [ insertArc_allarcs(gr, i, j) EXCEPT
      !.num_inner_arcs = @ + 1,
      !.allinnerarcs = Append(@, <<i, j>>),
      !.prev_wave_degree = WaveDelta(@, i, j, 1) ]

removeArc_allinnerarcs(gr, i, j, arcidx) ==
  [ removeArc_allarcs(gr, i, j, IndexOf(gr.allarcs, <<i, j>>)) EXCEPT
      !.num_inner_arcs = @ - 1,
      !.allinnerarcs = SwapRemove(@, arcidx),
      !.prev_wave_degree = WaveDelta(@, i, j, -1) ]

insertArc_all_maxtermsender_arcs(gr, i, j) ==
  [ insertArc_allarcs(gr, i, j) EXCEPT
      !.num_maxtermsender_arcs = @ + 1,
      !.all_maxtermsender_arcs = Append(@, <<i, j>>) ]

removeArc_all_maxtermsender_arcs(gr, i, j, arcidx) ==
  [ removeArc_allarcs(gr, i, j, IndexOf(gr.allarcs, <<i, j>>)) EXCEPT
      !.num_maxtermsender_arcs = @ - 1,
      !.all_maxtermsender_arcs = SwapRemove(@, arcidx) ]

\* one arc of the arc list file: the arc, and the side lists that apply to it
LoadArc(gr, i, j) ==
  LET g1 == insertArc_allarcs(gr, i, j)
      g2 == IF cfg.zone_filename # "none"
            THEN [ g1 EXCEPT
                     !.num_inner_arcs = IF isInnerArc(i, j) THEN @ + 1 ELSE @,
                     !.allinnerarcs = IF isInnerArc(i, j) THEN Append(@, <<i, j>>) ELSE @,
                     !.prev_wave_degree = WaveDelta(@, i, j, 1) ]
            ELSE g1
  IN  IF cfg.citationERGM /\ i \in maxterm_nodes
      THEN [ g2 EXCEPT
               !.num_maxtermsender_arcs = @ + 1,
               !.all_maxtermsender_arcs = Append(@, <<i, j>>) ]
      ELSE g2

RECURSIVE LoadArcs(_, _)
LoadArcs(gr, arcs) ==
  IF arcs = <<>> THEN gr
  ELSE LoadArcs(LoadArc(gr, Head(arcs)[1], Head(arcs)[2]), Tail(arcs))

load_digraph_from_arclist_file(n, arcs) == LoadArcs(EmptyGraph(n), arcs)

ArcSet(gr) == {p \in DOMAIN gr.mixTwoPathMatrix : isArc(gr, p[1], p[2])}

\* gr holds no pair of arcs i->j and j->i between distinct nodes
NoReciprocatedArc(gr) ==
  \A a \in ArcSet(gr) : a[1] # a[2] => ~isArc(gr, a[2], a[1])

(***************************************************************************)
(* Configurations                                                          *)
(***************************************************************************)
ARC_PARAM_STR == "Arc"

\* strcasecmp(a, b) == 0 on the parameter names of the model
tolower(s) == IF s \in {"Arc", "ARC", "arc"} THEN "arc" ELSE "reciprocity"

strcasecmp0(a, b) == tolower(a) = tolower(b)

BaseConfig ==
  [ mode |-> "estimate",
    num_nodes |-> MaxNodes,
    structParams |-> <<"Reciprocity">>,
    num_attr_change_stats_funcs |-> 0,
    num_dyadic_change_stats_funcs |-> 0,
    num_attr_interaction_change_stats_funcs |-> 0,
    useIFDsampler |-> TRUE,
    useConditionalEstimation |-> FALSE,
    zone_filename |-> "none",
    citationERGM |-> FALSE,
    forbidReciprocity |-> FALSE,
    allowLoops |-> FALSE,
    samplerSteps |-> MaxSamplerSteps,
    Ssteps |-> MaxSsteps,
    EEsteps |-> MaxEEsteps,
    EEinnerSteps |-> MaxEEinnerSteps,
    outputAllSteps |-> FALSE,
    useBorisenkoUpdate |-> FALSE,
    NDEBUG |-> FALSE ]

\* the locals of ifdSampler (ret: the caller to return to), and a record of
\* the last proposal: its kind, whether it was accepted, and the graph before it
\* (g_before), the graph at the start of a call that does not perform moves
\* (g_call) and at the start of the first of the calls in a row that do not
\* (g_first), and num_arcs before the last and the last but one accepted move
\* of the call (round1, round0; -1: none), and num_arcs at the start of the
\* call (m_call)
NoSmp ==
  [ ret |-> "none", sampler_m |-> 0, performMove |-> FALSE,
    k |-> 0, Ndel |-> 0, Nadd |-> 0, accepted |-> 0,
    i |-> 0, j |-> 0, arcidx |-> 0, changestats |-> <<>>, total_aux |-> 0,
    addChangeStats |-> <<>>, delChangeStats |-> <<>>,
    last_kind |-> "none", last_accepted |-> FALSE, g_before |-> <<>>,
    g_call |-> <<>>, g_first |-> <<>>, round0 |-> -1, round1 |-> -1,
    m_call |-> -1 ]

\* the locals of algorithm_S / algorithm_EE.  theta is tracked only as far as
\* the Metropolis test needs: whether theta[l] is still exactly zero
\* (theta_nz[l] FALSE) or not, with the last theta_step[l] of Algorithm EE in
\* units of its positive factor (da[l], or learningRate * MAX(fabs(theta[l]),
\* minTheta) with 0 < learningRate < 1 and minTheta > 0).  The auxiliary parameter is kept exactly, in
\* units of ifd_K / sampler_m^2: every proposal of a call is an add or a delete
\* move, so Ndel + Nadd = sampler_m in each step of the parameter.
NoAlg ==
  [ t |-> 0, touter |-> 0, tinner |-> 0, D0 |-> <<>>, Dmean |-> <<>>,
    dzA |-> <<>>, theta_nz |-> <<>>, theta_step |-> <<>>, ifd_aux_param |-> 0,
    arc_correction_val |-> <<>>, dzArc |-> 0, ifd_aux_param_step |-> <<>> ]

\* what the task has done so far: files opened, lines written, calls made,
\* num_arcs before the first sampler call that performs moves (m_move0),
\* the kind of the last move that the IFD sampler accepted, the kind that the
\* last call of the IFD sampler left pending (pending_kind), the auxiliary
\* parameter of algorithm_S when it returned (S_ifd_aux_param), the accumulators
\* <<addChangeStats, delChangeStats>> that each sampler call of Algorithm EE
\* has returned (EE_calls), the step indices that begin the lines which
\* Algorithm EE has written to the theta and dzA files (theta_ts, dzA_ts) and
\* how many of these lines the last fflush has covered, the Arc value of the
\* last line (line_Arc = <<V, C>> for V - log C) with the arc correction of
\* the graph as it was when that line was written, return values
NoOut ==
  [ theta_open |-> FALSE, dzA_open |-> FALSE, proposed |-> FALSE,
    S_called |-> FALSE, EE_called |-> FALSE, sampler_calls |-> 0,
    accepted_kind |-> "none", pending_kind |-> "add", EE_calls |-> <<>>,
    S_ifd_aux_param |-> 0,
    m0 |-> 0, m_move0 |-> -1, reciprocated0 |-> FALSE, line_arcs |-> -1,
    theta_header |-> -1, dzA_header |-> -1, theta_line |-> -1, dzA_line |-> -1,
    line_Arc |-> <<>>, line_arcCorrection |-> <<>>,
    theta_ts |-> <<>>, dzA_ts |-> <<>>, theta_flushed |-> 0, dzA_flushed |-> 0,
    errcode |-> 0, rc |-> 0, exit_code |-> 0 ]

(***************************************************************************)
(* SpecGraph: sequences of insertArc / removeArc from the empty graph      *)
(***************************************************************************)
InitGraph ==
  /\ cfg = BaseConfig
  /\ g = EmptyGraph(MaxNodes)
  /\ isDelete = FALSE
  /\ pc = "graph"
  /\ smp = NoSmp
  /\ alg = NoAlg
  /\ out = NoOut

InsertArcOp ==
  \E i \in Nodes, j \in Nodes :
    /\ pc = "graph"
    /\ i # j
    /\ ~isArc(g, i, j)
    /\ g.num_arcs < MaxGraphArcs
    /\ g' = insertArc(g, i, j)
    /\ UNCHANGED <<cfg, isDelete, pc, smp, alg, out>>

RemoveArcOp ==
  \E i \in Nodes, j \in Nodes :
    /\ pc = "graph"
    /\ isArc(g, i, j)
    /\ g' = removeArc(g, i, j)
    /\ UNCHANGED <<cfg, isDelete, pc, smp, alg, out>>

NextGraph == InsertArcOp \/ RemoveArcOp

SpecGraph == InitGraph /\ [][NextGraph]_vars

\* brute-force recounts under the current arc set
CountMix(gr, a, b) ==
  Cardinality({k \in Nodes : isArc(gr, a, k) /\ isArc(gr, k, b)})

CountIn(gr, a, b) ==
  Cardinality({k \in Nodes : isArc(gr, a, k) /\ isArc(gr, b, k)})

CountOut(gr, a, b) ==
  Cardinality({k \in Nodes : isArc(gr, k, a) /\ isArc(gr, k, b)})

n_struct == Len(cfg.structParams)

n_attr == cfg.num_attr_change_stats_funcs

n_dyadic == cfg.num_dyadic_change_stats_funcs

n_attr_interaction == cfg.num_attr_interaction_change_stats_funcs

\* num_param
n == n_struct + n_attr + n_dyadic + n_attr_interaction

\* change statistic for adding arc i->j to a graph that does not hold it
changeArc(gr, i, j) == 1

changeReciprocity(gr, i, j) == IF isArc(gr, j, i) THEN 1 ELSE 0

change_stats_funcs(name, gr, i, j) ==
  IF tolower(name) = "arc" THEN changeArc(gr, i, j)
  ELSE changeReciprocity(gr, i, j)

\* the attribute, dyadic covariate and attribute interaction parameters of
\* the model: Sender on a binary attribute that every node has, and a dyadic
\* covariate and a matching interaction that are 1 on every pair
changeSender(gr, i, j) == 1

changeDyadicCovariate(gr, i, j) == 1

changeMatchingInteraction(gr, i, j) == 1

\* the change statistic of position l of theta for adding i->j: the
\* structural parameters come first, then the attribute, the dyadic and the
\* attribute interaction parameters
changeStatistic(l, gr, i, j) ==
  IF l <= n_struct THEN change_stats_funcs(cfg.structParams[l], gr, i, j)
  ELSE IF l <= n_struct + n_attr THEN changeSender(gr, i, j)
  ELSE IF l <= n_struct + n_attr + n_dyadic THEN changeDyadicCovariate(gr, i, j)
  ELSE changeMatchingInteraction(gr, i, j)

\* the change statistics of the add move, negated for a delete move
calcChangeStats(gr, i, j, isDel) ==
  [ l \in 1 .. n |-> (IF isDel THEN -1 ELSE 1) * changeStatistic(l, gr, i, j) ]

Zeros == [l \in 1 .. n |-> 0]

\* the term of the auxiliary parameter in total that ignores the kind of move
auxTerm_alwaysPlus(isDel, V) == V

\* the term of the auxiliary parameter in total:
\* total += (isDelete ? -1 : 1) * *ifd_aux_param
auxTerm(isDel, V) == (IF isDel THEN -1 ELSE 1) * V

\* total = sum of theta[l]*changestats[l] -/+ ifd_aux_param is exactly 0, so
\* exp(total) = 1 and urand() < exp(total) holds for every draw
TotalIsZero(changestats) ==
  /\ smp.total_aux = 0
  /\ \A l \in 1 .. n : ~alg.theta_nz[l] \/ changestats[l] = 0

(***************************************************************************)
(* ifdSampler                                                              *)
(***************************************************************************)
Regime ==
  IF cfg.useConditionalEstimation THEN "snowball"
  ELSE IF cfg.citationERGM THEN "citation"
  ELSE "plain"

\* the list a delete move draws from
DeleteList(gr) ==
  IF Regime = "snowball" THEN gr.allinnerarcs
  ELSE IF Regime = "citation" THEN gr.all_maxtermsender_arcs
  ELSE gr.allarcs

DeleteCount(gr) ==
  IF Regime = "snowball" THEN gr.num_inner_arcs
  ELSE IF Regime = "citation" THEN gr.num_maxtermsender_arcs
  ELSE gr.num_arcs

Abs(x) == IF x < 0 THEN -x ELSE x

\* DeleteOK without the test of prev_wave_degree
DeleteOK_noWaveCheck(gr, i, j) == TRUE

\* the pairs on which the do-while loops of a delete move can end
DeleteOK(gr, i, j) ==
  Regime = "snowball" =>
    ~ \/ (zone(i) > zone(j) /\ gr.prev_wave_degree[i] = 1)
      \/ (zone(j) > zone(i) /\ gr.prev_wave_degree[j] = 1)

\* AddCandidates whose citation branch draws the sender from all nodes
AddCandidates_anySender(gr) ==
  IF Regime = "snowball"
  THEN {p \in inner_nodes \X inner_nodes :
          /\ p[1] # p[2]
          /\ ~isArc(gr, p[1], p[2])
          /\ Abs(zone(p[1]) - zone(p[2])) <= 1}
  ELSE IF Regime = "citation"
  THEN {p \in Nodes \X Nodes : p[1] # p[2] /\ ~isArc(gr, p[1], p[2])}
  ELSE {p \in Nodes \X Nodes :
          /\ cfg.allowLoops \/ p[1] # p[2]
          /\ ~isArc(gr, p[1], p[2])
          /\ ~(cfg.forbidReciprocity /\ isArc(gr, p[2], p[1]))}

\* AddCandidates whose plain branch does not look at forbidReciprocity
AddCandidates_allowReciprocal(gr) ==
  IF Regime = "snowball"
  THEN {p \in inner_nodes \X inner_nodes :
          /\ p[1] # p[2]
          /\ ~isArc(gr, p[1], p[2])
          /\ Abs(zone(p[1]) - zone(p[2])) <= 1}
  ELSE IF Regime = "citation"
  THEN {p \in maxterm_nodes \X Nodes : p[1] # p[2] /\ ~isArc(gr, p[1], p[2])}
  ELSE {p \in Nodes \X Nodes :
          /\ cfg.allowLoops \/ p[1] # p[2]
          /\ ~isArc(gr, p[1], p[2])}

\* the pairs on which the do-while loops of an add move can end
AddCandidates(gr) ==
  IF Regime = "snowball"
  THEN {p \in inner_nodes \X inner_nodes :
          /\ p[1] # p[2]
          /\ ~isArc(gr, p[1], p[2])
          /\ Abs(zone(p[1]) - zone(p[2])) <= 1}
  ELSE IF Regime = "citation"
  THEN {p \in maxterm_nodes \X Nodes : p[1] # p[2] /\ ~isArc(gr, p[1], p[2])}
  ELSE {p \in Nodes \X Nodes :
          /\ cfg.allowLoops \/ p[1] # p[2]
          /\ ~isArc(gr, p[1], p[2])
          /\ ~(cfg.forbidReciprocity /\ isArc(gr, p[2], p[1]))}

\* removeArc_regime that passes the index of the last entry, not the drawn one
removeArc_regime_lastIndex(gr, i, j, arcidx) ==
  IF Regime = "snowball" THEN removeArc_allinnerarcs(gr, i, j, gr.num_inner_arcs)
  ELSE IF Regime = "citation"
  THEN removeArc_all_maxtermsender_arcs(gr, i, j, gr.num_maxtermsender_arcs)
  ELSE removeArc_allarcs(gr, i, j, gr.num_arcs)

removeArc_regime(gr, i, j, arcidx) ==
  IF Regime = "snowball" THEN removeArc_allinnerarcs(gr, i, j, arcidx)
  ELSE IF Regime = "citation" THEN removeArc_all_maxtermsender_arcs(gr, i, j, arcidx)
  ELSE removeArc_allarcs(gr, i, j, arcidx)

insertArc_regime(gr, i, j) ==
  IF Regime = "snowball" THEN insertArc_allinnerarcs(gr, i, j)
  ELSE IF Regime = "citation" THEN insertArc_all_maxtermsender_arcs(gr, i, j)
  ELSE insertArc_allarcs(gr, i, j)

\* the asserts at the head of the snowball and citation branches
SamplerAssertFails ==
  /\ Regime # "plain"
  /\ cfg.forbidReciprocity \/ cfg.allowLoops

\* isDelete as an automatic variable, initialised at every call
isDelete_atCall_initialised(pending) == FALSE

\* isDelete is static: a call finds the value that the last call left
isDelete_atCall(pending) == pending

\* the state of a call of ifdSampler from the caller ret
CallSampler(ret, performMove) ==
  /\ isDelete' = isDelete_atCall(isDelete)
  /\ smp' = [ NoSmp EXCEPT
                !.ret = ret,
                !.sampler_m = cfg.samplerSteps,
                !.performMove = performMove,
                !.addChangeStats = Zeros,
                !.delChangeStats = Zeros,
                !.m_call = g.num_arcs,
                !.g_call = IF performMove THEN <<>> ELSE <<g>>,
                !.g_first = IF performMove THEN <<>>
                            ELSE IF smp.g_first # <<>> THEN smp.g_first
                            ELSE <<g>> ]
  /\ out' = [ out EXCEPT
                !.sampler_calls = @ + 1,
                !.m_move0 = IF performMove /\ @ < 0 THEN g.num_arcs ELSE @ ]
  /\ pc' = IF cfg.useIFDsampler THEN "ifdSampler" ELSE "basicSampler"

ifdSampler_assert_abort ==
  /\ pc = "ifdSampler"
  /\ smp.k < smp.sampler_m
  /\ SamplerAssertFails
  /\ ~cfg.NDEBUG
  /\ pc' = "aborted"
  /\ UNCHANGED <<cfg, g, isDelete, smp, alg, out>>

\* a proposal that is not counted
countProposal_notCounted(N) == N

\* Ndel++ / Nadd++: every proposal is counted when it is made
countProposal(N) == N + 1

\* an add move is proposed: isDelete is FALSE, or the citation branch finds
\* no arc to delete and forces an add move
ifdSampler_propose_add ==
  /\ pc = "ifdSampler"
  /\ smp.k < smp.sampler_m
  /\ SamplerAssertFails => cfg.NDEBUG
  /\ ~isDelete \/ (Regime = "citation" /\ g.num_maxtermsender_arcs = 0)
  /\ \E p \in AddCandidates(g) :
       smp' = [ smp EXCEPT
                  !.i = p[1],
                  !.j = p[2],
                  !.Nadd = countProposal(@),
                  !.changestats = calcChangeStats(g, p[1], p[2], FALSE),
                  !.total_aux = auxTerm(FALSE, alg.ifd_aux_param),
                  !.last_kind = "add",
                  !.g_before = <<g>> ]
  /\ isDelete' = FALSE
  /\ out' = [out EXCEPT !.proposed = TRUE]
  /\ pc' = "accept"
  /\ UNCHANGED <<cfg, g, alg>>

\* a delete move is proposed: the arc is drawn from the regime's list and
\* removed before the change statistics are computed
ifdSampler_propose_delete ==
  /\ pc = "ifdSampler"
  /\ smp.k < smp.sampler_m
  /\ SamplerAssertFails => cfg.NDEBUG
  /\ isDelete
  /\ DeleteCount(g) > 0
  /\ \E arcidx \in 1 .. DeleteCount(g) :
       LET i == DeleteList(g)[arcidx][1]
           j == DeleteList(g)[arcidx][2]
           g1 == removeArc_regime(g, i, j, arcidx)
       IN  /\ DeleteOK(g, i, j)
           /\ g' = g1
           /\ smp' = [ smp EXCEPT
                         !.i = i,
                         !.j = j,
                         !.arcidx = arcidx,
                         !.Ndel = countProposal(@),
                         !.changestats = calcChangeStats(g1, i, j, TRUE),
                         !.total_aux = auxTerm(TRUE, alg.ifd_aux_param),
                         !.last_kind = "del",
                         !.g_before = <<g>> ]
  /\ out' = [out EXCEPT !.proposed = TRUE]
  /\ pc' = "accept"
  /\ UNCHANGED <<cfg, isDelete, alg>>

\* a delete move with nothing to draw from (snowball and plain branches):
\* int_urand(0) and the read of entry 0 of an empty list are undefined; the
\* process is killed, or goes on with values the model does not follow
ifdSampler_delete_empty ==
  /\ pc = "ifdSampler"
  /\ smp.k < smp.sampler_m
  /\ SamplerAssertFails => cfg.NDEBUG
  /\ isDelete
  /\ Regime # "citation"
  /\ DeleteCount(g) = 0
  /\ \E o \in {"crashed", "undefined"} : pc' = o
  /\ UNCHANGED <<cfg, g, isDelete, smp, alg, out>>

AddTo(acc, changestats) == [l \in 1 .. n |-> acc[l] + changestats[l]]

\* acceptMove that performs the move whatever performMove says
acceptMove_alwaysPerform(gr, performMove, isDel, i, j) ==
  IF ~isDel THEN insertArc_regime(gr, i, j) ELSE gr

\* acceptMove that forgets to add the arc of an accepted add move
acceptMove_noInsert(gr, performMove, isDel, i, j) ==
  IF performMove THEN gr
  ELSE (IF isDel THEN insertArc_regime(gr, i, j) ELSE gr)

\* the graph after an accepted move: with performMove the arc of an add move
\* is inserted (that of a delete move is removed already); without, the arc
\* of a delete move is put back
acceptMove(gr, performMove, isDel, i, j) ==
  IF performMove
  THEN (IF ~isDel THEN insertArc_regime(gr, i, j) ELSE gr)
  ELSE (IF isDel THEN insertArc_regime(gr, i, j) ELSE gr)

\* nextIsDelete that makes every move an add move
nextIsDelete_alwaysAdd(isDel) == FALSE

\* nextIsDelete that keeps the kind of move after an accepted move
nextIsDelete_noToggle(isDel) == isDel

\* the kind of the next move after an accepted move: isDelete = !isDelete
nextIsDelete(isDel) == ~isDel

\* rejectMove that leaves the arc of a delete move removed
rejectMove_noRestore(gr, isDel, i, j) == gr

\* the graph after a rejected move: the arc of a delete move is put back
rejectMove(gr, isDel, i, j) ==
  IF isDel THEN insertArc_regime(gr, i, j) ELSE gr

\* urand() < exp(total): the move is accepted
ifdSampler_accept ==
  /\ pc = "accept"
  /\ g' = acceptMove(g, smp.performMove, smp.last_kind = "del", smp.i, smp.j)
  /\ smp' = [ smp EXCEPT
                !.accepted = @ + 1,
                !.delChangeStats =
                   IF smp.last_kind = "del" THEN AddTo(@, smp.changestats) ELSE @,
                !.addChangeStats =
                   IF smp.last_kind = "add" THEN AddTo(@, smp.changestats) ELSE @,
                !.last_accepted = TRUE,
                !.round0 = IF smp.performMove THEN smp.round1 ELSE @,
                !.round1 = IF smp.performMove THEN smp.g_before[1].num_arcs ELSE @,
                !.k = @ + 1 ]
  /\ isDelete' = nextIsDelete(isDelete)
  /\ out' = [out EXCEPT !.accepted_kind = smp.last_kind]
  /\ pc' = "ifdSampler"
  /\ UNCHANGED <<cfg, alg>>

\* urand() >= exp(total): the move is rejected, a removed arc is put back
ifdSampler_reject ==
  /\ pc = "accept"
  /\ ~TotalIsZero(smp.changestats)
  /\ g' = rejectMove(g, smp.last_kind = "del", smp.i, smp.j)
  /\ smp' = [smp EXCEPT !.last_accepted = FALSE, !.k = @ + 1]
  /\ pc' = "ifdSampler"
  /\ UNCHANGED <<cfg, isDelete, alg, out>>

\* the update of the auxiliary parameter with the step left out
ifd_aux_param_update_noStep(V, Ndel, Nadd) == V

\* the update of the auxiliary parameter by ifd_aux_param_step =
\* ifd_K * (Ndel - Nadd)^2 / (Ndel + Nadd)^2, in units of ifd_K / sampler_m^2
ifd_aux_param_update(V, Ndel, Nadd) ==
  LET ifd_aux_param_step == (Ndel - Nadd) * (Ndel - Nadd)
  IN  IF Ndel - Nadd > 0 THEN V - ifd_aux_param_step
      ELSE IF Ndel - Nadd < 0 THEN V + ifd_aux_param_step
      ELSE V

\* after the last proposal: the auxiliary parameter is updated
\* *dzArc = (double)Ndel - (double)Nadd
dzArc(Ndel, Nadd) == Ndel - Nadd

ifdSampler_return ==
  /\ pc = "ifdSampler"
  /\ smp.k = smp.sampler_m
  /\ alg' = [ alg EXCEPT
                !.ifd_aux_param = ifd_aux_param_update(@, smp.Ndel, smp.Nadd),
                !.dzArc = dzArc(smp.Ndel, smp.Nadd) ]
  /\ out' = [out EXCEPT !.pending_kind = IF isDelete THEN "del" ELSE "add"]
  /\ pc' = smp.ret
  /\ UNCHANGED <<cfg, g, isDelete, smp>>

(***************************************************************************)
(* basicSampler: each proposal is an add or a delete move by a fair coin   *)
(***************************************************************************)
\* basicTotalIsZero that never finds the total to be zero
basicTotalIsZero_never(changestats) == FALSE

\* total = sum of theta[l]*changestats[l] is exactly 0: the move is accepted
\* with probability min(1, exp(0)) = 1
basicTotalIsZero(changestats) ==
  \A l \in 1 .. n : ~alg.theta_nz[l] \/ changestats[l] = 0

\* the coin says add, or it says delete and there is no arc to delete
basicSampler_propose_add ==
  /\ pc = "basicSampler"
  /\ smp.k < smp.sampler_m
  /\ \E p \in AddCandidates(g) :
       smp' = [ smp EXCEPT
                  !.i = p[1],
                  !.j = p[2],
                  !.changestats = calcChangeStats(g, p[1], p[2], FALSE),
                  !.last_kind = "add",
                  !.g_before = <<g>> ]
  /\ out' = [out EXCEPT !.proposed = TRUE]
  /\ pc' = "basic_accept"
  /\ UNCHANGED <<cfg, g, isDelete, alg>>

\* the coin says delete: the arc is drawn from the regime's list and removed
\* before the change statistics are computed
basicSampler_propose_delete ==
  /\ pc = "basicSampler"
  /\ smp.k < smp.sampler_m
  /\ DeleteCount(g) > 0
  /\ \E arcidx \in 1 .. DeleteCount(g) :
       LET i == DeleteList(g)[arcidx][1]
           j == DeleteList(g)[arcidx][2]
           g1 == removeArc_regime(g, i, j, arcidx)
       IN  /\ DeleteOK(g, i, j)
           /\ g' = g1
           /\ smp' = [ smp EXCEPT
                         !.i = i,
                         !.j = j,
                         !.arcidx = arcidx,
                         !.changestats = calcChangeStats(g1, i, j, TRUE),
                         !.last_kind = "del",
                         !.g_before = <<g>> ]
  /\ out' = [out EXCEPT !.proposed = TRUE]
  /\ pc' = "basic_accept"
  /\ UNCHANGED <<cfg, isDelete, alg>>

\* the move is accepted
basicSampler_accept ==
  /\ pc = "basic_accept"
  /\ g' = acceptMove(g, smp.performMove, smp.last_kind = "del", smp.i, smp.j)
  /\ smp' = [ smp EXCEPT
                !.accepted = @ + 1,
                !.delChangeStats =
                   IF smp.last_kind = "del" THEN AddTo(@, smp.changestats) ELSE @,
                !.addChangeStats =
                   IF smp.last_kind = "add" THEN AddTo(@, smp.changestats) ELSE @,
                !.last_accepted = TRUE,
                !.k = @ + 1 ]
  /\ pc' = "basicSampler"
  /\ UNCHANGED <<cfg, isDelete, alg, out>>

\* the move is rejected, a removed arc is put back
basicSampler_reject ==
  /\ pc = "basic_accept"
  /\ ~basicTotalIsZero(smp.changestats)
  /\ g' = rejectMove(g, smp.last_kind = "del", smp.i, smp.j)
  /\ smp' = [smp EXCEPT !.last_accepted = FALSE, !.k = @ + 1]
  /\ pc' = "basicSampler"
  /\ UNCHANGED <<cfg, isDelete, alg, out>>

\* the acceptance rate accepted / sampler_m is returned
basicSampler_return ==
  /\ pc = "basicSampler"
  /\ smp.k = smp.sampler_m
  /\ pc' = smp.ret
  /\ UNCHANGED <<cfg, g, isDelete, smp, alg, out>>

(***************************************************************************)
(* Estimation: do_estimation, ee_estimate, algorithm_S, algorithm_EE, main *)
(***************************************************************************)
hasArcParam ==
  \E l \in 1 .. n_struct : strcasecmp0(cfg.structParams[l], ARC_PARAM_STR)

\* the asserts of arcCorrection (the graph of the model is directed)
ArcCorrectionAssertFails ==
  \/ cfg.useConditionalEstimation /\ cfg.citationERGM
  \/ cfg.allowLoops /\ (cfg.useConditionalEstimation \/ cfg.citationERGM)

\* the numbers of dyads of a directed graph and of its inner nodes
num_graph_dyads(gr) == cfg.num_nodes * (cfg.num_nodes - 1)

num_graph_inner_dyads(gr) == Cardinality(inner_nodes) * (Cardinality(inner_nodes) - 1)

\* arcCorrection is log(a / b); the model keeps the argument of the logarithm
\* as the pair <<a, b>> of the numbers of absent arcs and of arcs plus one of
\* the kind that the regime samples (the counts are whole numbers here)
arcCorrection(gr) ==
  LET N == cfg.num_nodes
      L_max == IF cfg.allowLoops THEN N * N ELSE num_graph_dyads(gr)
      num_dyads == IF ~cfg.forbidReciprocity THEN L_max
                   ELSE IF cfg.allowLoops THEN L_max - (N * (N - 1)) \div 2
                   ELSE L_max \div 2
      num_maxtermsender_dyads == (Cardinality(maxterm_nodes) * (N - 1)) \div 2
  IN  IF cfg.useConditionalEstimation
      THEN <<num_graph_inner_dyads(gr) - gr.num_inner_arcs, gr.num_inner_arcs + 1>>
      ELSE IF cfg.citationERGM
      THEN <<num_maxtermsender_dyads - gr.num_maxtermsender_arcs,
             gr.num_maxtermsender_arcs + 1>>
      ELSE <<num_dyads - gr.num_arcs, gr.num_arcs + 1>>

\* sampler_m / D0[l] in IEEE arithmetic, by class
DmeanOf(sampler_m, D0l) ==
  IF D0l # 0 THEN "finite"
  ELSE IF sampler_m = 0 THEN "nan"
  ELSE "inf"

isinf(x) == x = "inf"

\* the number of names in fileheader: t, Arc with the IFD sampler, and the
\* names of the structural, the attribute and the dyadic parameters
fileheader ==
  1 + (IF cfg.useIFDsampler THEN 1 ELSE 0) + n_struct + n_attr + n_dyadic

\* the number of names of the header line of the theta file (fileheader and
\* AcceptanceRate) and of the dzA file (fileheader)
theta_header == fileheader + 1

dzA_header == fileheader

\* the number of values of a line of the theta file: t, the auxiliary
\* parameter with the IFD sampler, theta[0 .. n-1] and the acceptance rate
theta_line == 1 + (IF cfg.useIFDsampler THEN 1 ELSE 0) + n + 1

\* the number of values of a line of the dzA file: t, dzArc with the IFD
\* sampler and dzA[0 .. n-1]
dzA_line == 1 + (IF cfg.useIFDsampler THEN 1 ELSE 0) + n

do_estimation_ifd_arc_error ==
  /\ pc = "start"
  /\ cfg.mode = "estimate"
  /\ cfg.useIFDsampler /\ hasArcParam
  /\ out' = [out EXCEPT !.theta_open = TRUE, !.rc = -1]
  /\ pc' = "returned"
  /\ UNCHANGED <<cfg, g, isDelete, smp, alg>>

do_estimation_no_zones_error ==
  /\ pc = "start"
  /\ cfg.mode = "estimate"
  /\ ~(cfg.useIFDsampler /\ hasArcParam)
  /\ cfg.useConditionalEstimation
  /\ cfg.zone_filename = "none"
  /\ out' = [out EXCEPT !.theta_open = TRUE, !.rc = -1]
  /\ pc' = "returned"
  /\ UNCHANGED <<cfg, g, isDelete, smp, alg>>

do_estimation_one_zone_error ==
  /\ pc = "start"
  /\ cfg.mode = "estimate"
  /\ ~(cfg.useIFDsampler /\ hasArcParam)
  /\ cfg.useConditionalEstimation
  /\ cfg.zone_filename # "none"
  /\ max_zone < 1
  /\ out' = [out EXCEPT !.theta_open = TRUE, !.rc = -1]
  /\ pc' = "returned"
  /\ UNCHANGED <<cfg, g, isDelete, smp, alg>>

\* all checks pass: both files are opened, the headers written and
\* ee_estimate is entered
do_estimation_ee_estimate ==
  /\ pc = "start"
  /\ cfg.mode = "estimate"
  /\ ~(cfg.useIFDsampler /\ hasArcParam)
  /\ cfg.useConditionalEstimation => (cfg.zone_filename # "none" /\ max_zone >= 1)
  /\ out' = [ out EXCEPT
                !.theta_open = TRUE,
                !.dzA_open = TRUE,
                !.theta_header = theta_header,
                !.dzA_header = dzA_header ]
  /\ pc' = "ee_estimate"
  /\ UNCHANGED <<cfg, g, isDelete, smp, alg>>

\* ee_estimate prints arcCorrection(g) when the IFD sampler is used
ee_estimate_assert_abort ==
  /\ pc = "ee_estimate"
  /\ cfg.useIFDsampler
  /\ ArcCorrectionAssertFails /\ ~cfg.NDEBUG
  /\ pc' = "aborted"
  /\ UNCHANGED <<cfg, g, isDelete, smp, alg, out>>

\* entry of algorithm_S: theta and D0 zeroed, ifd_aux_param = 0
ee_estimate_algorithm_S ==
  /\ pc = "ee_estimate"
  /\ (cfg.useIFDsampler /\ ArcCorrectionAssertFails) => cfg.NDEBUG
  /\ alg' = [ NoAlg EXCEPT
                !.D0 = Zeros,
                !.dzA = Zeros,
                !.arc_correction_val = IF cfg.useIFDsampler THEN arcCorrection(g) ELSE <<>>,
                !.theta_nz = [l \in 1 .. n |-> FALSE] ]
  /\ out' = [out EXCEPT !.S_called = TRUE]
  /\ pc' = "algorithm_S"
  /\ UNCHANGED <<cfg, g, isDelete, smp>>

\* the Arc value of a theta line with the IFD sampler:
\* ifd_aux_param - arc_correction_val
Arc_line ==
  IF cfg.useIFDsampler THEN <<alg.ifd_aux_param, alg.arc_correction_val>> ELSE <<>>

\* dzA of Algorithm S: dzA[l] = delChangeStats[l] - addChangeStats[l]
algorithm_S_dzA(addChangeStats, delChangeStats) ==
  [l \in 1 .. n |-> delChangeStats[l] - addChangeStats[l]]

algorithm_S_call ==
  /\ pc = "algorithm_S"
  /\ alg.t < cfg.Ssteps
  /\ CallSampler("algorithm_S_ret", FALSE)
  /\ UNCHANGED <<cfg, g, alg>>

\* after the sampler call: dzA = del - add, D0 += dzA^2, and theta[l] moves
\* iff dzA[l] # 0 and add + del # 0; the theta line is written
algorithm_S_update ==
  /\ pc = "algorithm_S_ret"
  /\ LET dzA == algorithm_S_dzA(smp.addChangeStats, smp.delChangeStats)
         sumChangeStats == [l \in 1 .. n |-> smp.addChangeStats[l] + smp.delChangeStats[l]]
     IN  alg' = [ alg EXCEPT
                    !.dzA = dzA,
                    !.D0 = [l \in 1 .. n |-> @[l] + dzA[l] * dzA[l]],
                    !.theta_nz = [l \in 1 .. n |->
                                    @[l] \/ (dzA[l] # 0 /\ sumChangeStats[l] # 0)],
                    !.t = @ + 1 ]
  /\ out' = [ out EXCEPT
                !.line_arcs = g.num_arcs,
                !.line_Arc = Arc_line,
                !.line_arcCorrection = IF cfg.useIFDsampler THEN arcCorrection(g) ELSE <<>>,
                !.theta_line = theta_line ]
  /\ pc' = "algorithm_S"
  /\ UNCHANGED <<cfg, g, isDelete, smp>>

\* end of algorithm_S (Dmean = sampler_m / D0) and the degeneracy test of
\* ee_estimate finding an infinite Dmean: Algorithm EE is not run
ee_estimate_degenerate ==
  /\ pc = "algorithm_S"
  /\ alg.t = cfg.Ssteps
  /\ LET Dmean == [l \in 1 .. n |-> DmeanOf(cfg.samplerSteps, alg.D0[l])]
     IN  /\ \E l \in 1 .. n : isinf(Dmean[l])
         /\ alg' = [alg EXCEPT !.Dmean = Dmean]
  /\ out' = [out EXCEPT !.errcode = 1]
  /\ pc' = "ee_estimate_ret"
  /\ UNCHANGED <<cfg, g, isDelete, smp>>

\* algorithm_EE going on with the auxiliary parameter of algorithm_S
algorithm_EE_ifd_aux_param_carried(V) == V

\* ifd_aux_param is a local of algorithm_EE, initialised to 0
algorithm_EE_ifd_aux_param(V) == 0

\* end of algorithm_S and the degeneracy test finding no infinite Dmean:
\* entry of algorithm_EE, with its own t = 0, dzA = 0 and ifd_aux_param = 0
ee_estimate_algorithm_EE ==
  /\ pc = "algorithm_S"
  /\ alg.t = cfg.Ssteps
  /\ LET Dmean == [l \in 1 .. n |-> DmeanOf(cfg.samplerSteps, alg.D0[l])]
     IN  /\ \A l \in 1 .. n : ~isinf(Dmean[l])
         /\ alg' = [ alg EXCEPT
                       !.Dmean = Dmean,
                       !.t = 0,
                       !.dzA = Zeros,
                       !.arc_correction_val = IF cfg.useIFDsampler THEN arcCorrection(g) ELSE <<>>,
                       !.ifd_aux_param = algorithm_EE_ifd_aux_param(@) ]
  /\ out' = [out EXCEPT !.EE_called = TRUE, !.S_ifd_aux_param = alg.ifd_aux_param]
  /\ pc' = "algorithm_EE"
  /\ UNCHANGED <<cfg, g, isDelete, smp>>

\* dzA of Algorithm EE that starts from zero in every iteration
algorithm_EE_dzA_reset(dzA, addChangeStats, delChangeStats) ==
  [l \in 1 .. n |-> addChangeStats[l] - delChangeStats[l]]

\* dzA of Algorithm EE: dzA[l] += addChangeStats[l] - delChangeStats[l]
algorithm_EE_dzA(dzA, addChangeStats, delChangeStats) ==
  [l \in 1 .. n |-> dzA[l] + addChangeStats[l] - delChangeStats[l]]

\* theta_step[l] of Algorithm EE in units of its positive factor: the sign
\* is (dzA[l] < 0 ? 1 : -1), times dzA[l]^2 under the classical rule
theta_step(dzA_l) ==
  (IF dzA_l < 0 THEN 1 ELSE -1) * (IF cfg.useBorisenkoUpdate THEN 1 ELSE dzA_l * dzA_l)

\* every inner step writes its lines
outputLine_always(tinner) == TRUE

\* the test that guards every fprintf of the inner loop
outputLine(tinner) == cfg.outputAllSteps \/ tinner = 0

algorithm_EE_call ==
  /\ pc = "algorithm_EE"
  /\ alg.touter < cfg.EEsteps
  /\ alg.tinner < cfg.EEinnerSteps
  /\ CallSampler("algorithm_EE_ret", TRUE)
  /\ UNCHANGED <<cfg, g, alg>>

\* after the sampler call: dzA accumulates add - del, theta[l] moves by
\* theta_step[l], and the theta and dzA lines are written when
\* outputAllSteps or tinner = 0
algorithm_EE_update ==
  /\ pc = "algorithm_EE_ret"
  /\ LET dzA == algorithm_EE_dzA(alg.dzA, smp.addChangeStats, smp.delChangeStats)
     IN  alg' = [ alg EXCEPT
                    !.dzA = dzA,
                    !.theta_step = [l \in 1 .. n |-> theta_step(dzA[l])],
                    !.theta_nz = [l \in 1 .. n |-> @[l] \/ theta_step(dzA[l]) # 0],
                    !.t = @ + 1,
                    !.tinner = @ + 1 ]
  /\ LET called == Append(out.EE_calls, <<smp.addChangeStats, smp.delChangeStats>>)
     IN  out' = IF outputLine(alg.tinner)
                THEN [ out EXCEPT
                         !.line_arcs = g.num_arcs,
                         !.line_Arc = Arc_line,
                         !.line_arcCorrection =
                            IF cfg.useIFDsampler THEN arcCorrection(g) ELSE <<>>,
                         !.theta_line = theta_line,
                         !.dzA_line = dzA_line,
                         !.theta_ts = Append(@, alg.t),
                         !.dzA_ts = Append(@, alg.t),
                         !.EE_calls = called ]
                ELSE [out EXCEPT !.EE_calls = called]
  /\ pc' = "algorithm_EE"
  /\ UNCHANGED <<cfg, g, isDelete, smp>>

\* end of an inner loop: D0 rescaled (not tracked), files flushed
algorithm_EE_outer ==
  /\ pc = "algorithm_EE"
  /\ alg.touter < cfg.EEsteps
  /\ alg.tinner = cfg.EEinnerSteps
  /\ alg' = [alg EXCEPT !.touter = @ + 1, !.tinner = 0]
  /\ out' = [ out EXCEPT
                !.dzA_flushed = Len(out.dzA_ts),
                !.theta_flushed = Len(out.theta_ts) ]
  /\ UNCHANGED <<cfg, g, isDelete, pc, smp>>

algorithm_EE_return ==
  /\ pc = "algorithm_EE"
  /\ alg.touter = cfg.EEsteps
  /\ pc' = "ee_estimate_ret"
  /\ UNCHANGED <<cfg, g, isDelete, smp, alg, out>>

\* the value of ee_estimate is not used: the files are closed and 0 returned
do_estimation_return ==
  /\ pc = "ee_estimate_ret"
  /\ out' = [out EXCEPT !.theta_open = FALSE, !.dzA_open = FALSE, !.rc = 0]
  /\ pc' = "returned"
  /\ UNCHANGED <<cfg, g, isDelete, smp, alg>>

\* main: rc = do_estimation(config, 0); exit(rc)
main_exit ==
  /\ pc = "returned"
  /\ cfg.mode = "estimate"
  /\ out' = [out EXCEPT !.exit_code = out.rc]
  /\ pc' = "exit"
  /\ UNCHANGED <<cfg, g, isDelete, smp, alg>>

(***************************************************************************)
(* Simulation: do_simulation, simulate_ergm                                *)
(***************************************************************************)
do_simulation_no_zones_error ==
  /\ pc = "start"
  /\ cfg.mode = "simulate"
  /\ cfg.useConditionalEstimation
  /\ cfg.zone_filename = "none"
  /\ out' = [out EXCEPT !.rc = -1]
  /\ pc' = "returned"
  /\ UNCHANGED <<cfg, g, isDelete, smp, alg>>

do_simulation_one_zone_error ==
  /\ pc = "start"
  /\ cfg.mode = "simulate"
  /\ cfg.useConditionalEstimation
  /\ cfg.zone_filename # "none"
  /\ max_zone < 1
  /\ out' = [out EXCEPT !.rc = -1]
  /\ pc' = "returned"
  /\ UNCHANGED <<cfg, g, isDelete, smp, alg>>

\* theta = calloc(...) (all zero); simulate_ergm makes one sampler call that
\* performs the moves, with ifd_aux_param = 0
do_simulation_simulate_ergm ==
  /\ pc = "start"
  /\ cfg.mode = "simulate"
  /\ cfg.useConditionalEstimation => (cfg.zone_filename # "none" /\ max_zone >= 1)
  /\ alg' = [NoAlg EXCEPT !.theta_nz = [l \in 1 .. n |-> FALSE]]
  /\ CallSampler("simulate_ergm_ret", TRUE)
  /\ UNCHANGED <<cfg, g>>

do_simulation_return ==
  /\ pc = "simulate_ergm_ret"
  /\ out' = [out EXCEPT !.rc = 0]
  /\ pc' = "returned"
  /\ UNCHANGED <<cfg, g, isDelete, smp, alg>>

(***************************************************************************)
(* Spec: one task of the estimation program, or one run of the simulation  *)
(* driver, from a configuration and an arc list file                       *)
(***************************************************************************)
ArcsOf(num) == {p \in NodesOf(num) \X NodesOf(num) : p[1] # p[2]}

\* the arcs of S in the order of the arc list file (by sender, then receiver)
RECURSIVE SeqOfArcs(_)
SeqOfArcs(S) ==
  IF S = {} THEN <<>>
  ELSE LET p == CHOOSE q \in S :
                  \A r \in S : q[1] < r[1] \/ (q[1] = r[1] /\ q[2] <= r[2])
       IN  <<p>> \o SeqOfArcs(S \ {p})

ArcLists ==
  {SeqOfArcs(S) : S \in {T \in SUBSET ArcsOf(MaxNodes) : Cardinality(T) <= MaxInitArcs}}

\* the arc list file of the configurations that do not vary the graph
SomeArcs == <<<<0, 1>>, <<1, 0>>>>

\* the sampling regimes and their options, all of them accepted
RegimeConfigs ==
  { BaseConfig,
    [BaseConfig EXCEPT !.forbidReciprocity = TRUE],
    [BaseConfig EXCEPT !.allowLoops = TRUE],
    [BaseConfig EXCEPT !.useConditionalEstimation = TRUE, !.zone_filename = "waves"],
    [BaseConfig EXCEPT !.citationERGM = TRUE] }

\* every combination of the options that the drivers and the asserts look at
OptionConfigs ==
  { [ BaseConfig EXCEPT
        !.mode = o.mode,
        !.useIFDsampler = o.ifd,
        !.useConditionalEstimation = o.cond,
        !.zone_filename = o.zones,
        !.citationERGM = o.cit,
        !.forbidReciprocity = o.forbid,
        !.allowLoops = o.loops,
        !.NDEBUG = o.ndebug,
        !.samplerSteps = 1,
        !.EEinnerSteps = 1 ] :
      o \in [ mode : {"estimate", "simulate"}, ifd : BOOLEAN, cond : BOOLEAN,
              zones : {"none", "single", "waves"}, cit : BOOLEAN,
              forbid : BOOLEAN, loops : BOOLEAN, ndebug : BOOLEAN ] }

ParamLists ==
  { <<>>, <<"Reciprocity">>, <<"Arc">>, <<"arc">>, <<"Reciprocity", "ARC">> }

ParamConfigs ==
  { [ BaseConfig EXCEPT
        !.mode = o.mode,
        !.useIFDsampler = o.ifd,
        !.structParams = o.params,
        !.samplerSteps = 1,
        !.EEinnerSteps = 1 ] :
      o \in [ mode : {"estimate", "simulate"}, ifd : BOOLEAN, params : ParamLists ] }

StepConfigs ==
  { [ BaseConfig EXCEPT
        !.structParams = o.params,
        !.samplerSteps = o.samplerSteps,
        !.Ssteps = o.Ssteps,
        !.EEsteps = o.EEsteps,
        !.EEinnerSteps = o.EEinnerSteps,
        !.outputAllSteps = o.outputAllSteps ] :
      o \in [ params : {<<>>, <<"Reciprocity">>},
              samplerSteps : 0 .. MaxSamplerSteps, Ssteps : 0 .. MaxSsteps,
              EEsteps : 0 .. MaxEEsteps, EEinnerSteps : 0 .. MaxEEinnerSteps,
              outputAllSteps : BOOLEAN ] }

\* models with every number of structural, attribute, dyadic and attribute
\* interaction parameters, with either sampler
ModelConfigs ==
  { [ BaseConfig EXCEPT
        !.useIFDsampler = o.ifd,
        !.structParams = o.params,
        !.num_attr_change_stats_funcs = o.n_attr,
        !.num_dyadic_change_stats_funcs = o.n_dyadic,
        !.num_attr_interaction_change_stats_funcs = o.n_attr_interaction,
        !.samplerSteps = 1,
        !.Ssteps = 1,
        !.EEinnerSteps = 1 ] :
      o \in [ ifd : BOOLEAN, params : {<<>>, <<"Reciprocity">>},
              n_attr : 0 .. MaxParamsOfAKind, n_dyadic : 0 .. MaxParamsOfAKind,
              n_attr_interaction : 0 .. MaxParamsOfAKind ] }

\* the basic sampler with several proposals in a call
BasicConfigs ==
  { [ BaseConfig EXCEPT
        !.mode = mode,
        !.useIFDsampler = FALSE,
        !.Ssteps = 1,
        !.EEinnerSteps = 1 ] : mode \in {"estimate", "simulate"} }

\* the Borisenko update of Algorithm EE, with either sampler
BorisenkoConfigs ==
  { [ BaseConfig EXCEPT
        !.useBorisenkoUpdate = TRUE,
        !.useIFDsampler = ifd,
        !.samplerSteps = 1,
        !.Ssteps = 1 ] : ifd \in BOOLEAN }

\* Algorithm EE with one outer iteration more, for a model without parameters
OuterSteps == MaxEEsteps + 1

OuterConfigs ==
  { [ BaseConfig EXCEPT
        !.structParams = <<>>,
        !.samplerSteps = 1,
        !.Ssteps = 0,
        !.EEsteps = OuterSteps,
        !.EEinnerSteps = o.EEinnerSteps,
        !.outputAllSteps = o.outputAllSteps ] :
      o \in [EEinnerSteps : 0 .. MaxEEinnerSteps, outputAllSteps : BOOLEAN] }

\* a snowball sample of four waves (zones 0 .. MaxNodes, the inner nodes are
\* the nodes 0 .. MaxNodes - 1), with ties inside and between the inner waves
\* and to the outermost wave
WaveNodes == MaxNodes + 1

WaveConfigs ==
  { [ BaseConfig EXCEPT
        !.num_nodes = WaveNodes,
        !.useConditionalEstimation = TRUE,
        !.zone_filename = "waves" ] }

WaveArcLists ==
  { SeqOfArcs(S) :
      S \in SUBSET {<<0, 1>>, <<1, 0>>, <<1, 2>>, <<MaxNodes - 1, MaxNodes>>} }

\* the estimation driver loads the graph from the arc list file before any
\* check; the simulation driver starts from the empty graph
Init ==
  /\ \/ /\ cfg \in RegimeConfigs
        /\ \E arcs \in ArcLists : g = load_digraph_from_arclist_file(cfg.num_nodes, arcs)
     \/ /\ cfg \in WaveConfigs
        /\ \E arcs \in WaveArcLists : g = load_digraph_from_arclist_file(cfg.num_nodes, arcs)
     \/ /\ cfg \in OptionConfigs \cup ParamConfigs \cup StepConfigs \cup ModelConfigs
                   \cup BasicConfigs \cup BorisenkoConfigs \cup OuterConfigs
        /\ g = IF cfg.mode = "simulate" THEN EmptyGraph(cfg.num_nodes)
               ELSE load_digraph_from_arclist_file(cfg.num_nodes, SomeArcs)
  /\ isDelete = FALSE
  /\ pc = "start"
  /\ smp = NoSmp
  /\ alg = NoAlg
  /\ out = [NoOut EXCEPT !.m0 = g.num_arcs, !.reciprocated0 = ~NoReciprocatedArc(g)]

Next ==
  \/ do_estimation_ifd_arc_error
  \/ do_estimation_no_zones_error
  \/ do_estimation_one_zone_error
  \/ do_estimation_ee_estimate
  \/ ee_estimate_assert_abort
  \/ ee_estimate_algorithm_S
  \/ algorithm_S_call
  \/ algorithm_S_update
  \/ ee_estimate_degenerate
  \/ ee_estimate_algorithm_EE
  \/ algorithm_EE_call
  \/ algorithm_EE_update
  \/ algorithm_EE_outer
  \/ algorithm_EE_return
  \/ do_estimation_return
  \/ main_exit
  \/ do_simulation_no_zones_error
  \/ do_simulation_one_zone_error
  \/ do_simulation_simulate_ergm
  \/ do_simulation_return
  \/ ifdSampler_assert_abort
  \/ ifdSampler_propose_add
  \/ ifdSampler_propose_delete
  \/ ifdSampler_delete_empty
  \/ ifdSampler_accept
  \/ ifdSampler_reject
  \/ ifdSampler_return
  \/ basicSampler_propose_add
  \/ basicSampler_propose_delete
  \/ basicSampler_accept
  \/ basicSampler_reject
  \/ basicSampler_return

Spec == Init /\ [][Next]_vars

TypeOK ==
  /\ pc \in { "start", "ee_estimate", "algorithm_S", "algorithm_S_ret",
              "algorithm_EE", "algorithm_EE_ret", "ee_estimate_ret",
              "simulate_ergm_ret", "returned", "exit", "ifdSampler", "accept",
              "aborted", "crashed", "undefined", "basicSampler", "basic_accept" }
  /\ isDelete \in BOOLEAN
  /\ g.num_arcs >= 0

(***************************************************************************)
(* Properties of the sampler                                               *)
(***************************************************************************)
\* a proposal of the current (or last) sampler call has been decided
Decided == pc \notin {"accept", "basic_accept"} /\ smp.last_kind # "none"

\* C1: with performMove, a decided proposal changes num_arcs by +1 if it is an
\* accepted add, by -1 if it is an accepted delete and not at all otherwise,
\* and after two accepted moves in a row (an add and a delete) num_arcs is
\* what it was before the first of them
C1_ArcCountMoves ==
  (Decided /\ smp.performMove) =>
    /\ g.num_arcs - smp.g_before[1].num_arcs =
         IF ~smp.last_accepted THEN 0
         ELSE IF smp.last_kind = "add" THEN 1
         ELSE -1
    /\ smp.round0 >= 0 => g.num_arcs = smp.round0

\* a call that performs moves has completed a round: an accepted add, then an
\* accepted delete
C1_Witness ==
  /\ pc = "ifdSampler"
  /\ smp.performMove
  /\ smp.last_kind = "del" /\ smp.last_accepted
  /\ smp.round0 >= 0
  /\ smp.round1 = smp.round0 + 1

\* C2 as stated: whenever a trajectory line has been written, num_arcs at that
\* moment was the initial arc count m
C2_LineArcsEqualM ==
  (cfg.mode = "estimate" /\ cfg.useIFDsampler /\ out.line_arcs >= 0) => out.line_arcs = out.m0

\* C2, amended: whenever a trajectory line has been written, num_arcs at that
\* moment differed from the initial arc count m by at most one
C2_LineArcsWithinOne ==
  (cfg.mode = "estimate" /\ cfg.useIFDsampler /\ out.line_arcs >= 0) =>
    /\ out.line_arcs - out.m0 <= 1
    /\ out.m0 - out.line_arcs <= 1

\* Algorithm EE has made two or more sampler calls and has written its last
\* line with one arc more or one arc less than m in the graph
C2_Witness ==
  /\ pc = "algorithm_EE"
  /\ out.EE_called
  /\ alg.t >= 2
  /\ out.line_arcs >= 0
  /\ out.line_arcs # out.m0

Restored ==
  /\ Decided
  /\ smp.last_kind = "del"
  /\ ~smp.last_accepted \/ ~smp.performMove

\* the graph gr apart from the order of its lists
Unordered(gr) ==
  [ arcs |-> ArcSet(gr),
    num_arcs |-> gr.num_arcs,
    outdegree |-> gr.outdegree,
    indegree |-> gr.indegree,
    mixTwoPathMatrix |-> gr.mixTwoPathMatrix,
    inTwoPathMatrix |-> gr.inTwoPathMatrix,
    outTwoPathMatrix |-> gr.outTwoPathMatrix,
    prev_wave_degree |-> gr.prev_wave_degree,
    allarcs |-> Range(gr.allarcs),
    num_allarcs |-> Len(gr.allarcs),
    num_inner_arcs |-> gr.num_inner_arcs,
    allinnerarcs |-> Range(gr.allinnerarcs),
    num_allinnerarcs |-> Len(gr.allinnerarcs),
    num_maxtermsender_arcs |-> gr.num_maxtermsender_arcs,
    all_maxtermsender_arcs |-> Range(gr.all_maxtermsender_arcs),
    num_all_maxtermsender_arcs |-> Len(gr.all_maxtermsender_arcs) ]

\* the entries of the list s, position by position
Entries(s) == [k \in 1 .. Len(s) |-> s[k]]

NonFinite(x) == x \in {"inf", "nan"}

\* C7 as stated: when ee_estimate returns, if some Dmean[l] is infinite or NaN
\* then Algorithm EE was not called and the value returned is not 0, and if
\* every Dmean[l] is finite then Algorithm EE was run and 0 is returned
C7_NonFiniteDmeanStopsRun ==
  pc = "ee_estimate_ret" =>
    IF \E l \in 1 .. n : NonFinite(alg.Dmean[l])
    THEN ~out.EE_called /\ out.errcode # 0
    ELSE out.EE_called /\ out.errcode = 0

\* C8 as stated: when ee_estimate has found the model degenerate (Algorithm EE
\* skipped), do_estimation returns a value other than 0 and the process exits
\* with a code other than 0
C8_DegeneracyExitsNonZero ==
  (cfg.mode = "estimate" /\ out.errcode # 0 /\ ~out.EE_called) =>
    /\ pc = "returned" => out.rc # 0
    /\ pc = "exit" => out.exit_code # 0

\* C9 as stated: with the IFD sampler and a structural parameter named Arc, in
\* either driver, no sampler call is made, neither algorithm is run and the
\* driver returns a negative value
C9_IfdArcRefused ==
  (cfg.useIFDsampler /\ hasArcParam) =>
    /\ out.sampler_calls = 0
    /\ ~out.S_called /\ ~out.EE_called
    /\ pc # "start" => (pc \in {"returned", "exit"} /\ out.rc < 0)

\* the option combinations that contradict each other
Contradictory ==
  \/ cfg.useConditionalEstimation /\ cfg.zone_filename = "none"
  \/ cfg.useConditionalEstimation /\ max_zone < 1
  \/ (cfg.forbidReciprocity \/ cfg.allowLoops)
       /\ (cfg.useConditionalEstimation \/ cfg.citationERGM)

\* C10 as stated: with the IFD sampler and contradictory options no proposal
\* is generated, the process is not aborted, and a driver that returns returns
\* an error
C10_ContradictoryOptionsRefused ==
  (cfg.useIFDsampler /\ Contradictory) =>
    /\ ~out.proposed
    /\ pc # "aborted"
    /\ pc \in {"returned", "exit"} => out.rc # 0

\* a delete move is due in a sampler call and the list it draws from is empty
DeleteDueOnEmptyList ==
  /\ pc = "ifdSampler"
  /\ smp.k < smp.sampler_m
  /\ SamplerAssertFails => cfg.NDEBUG
  /\ isDelete
  /\ DeleteCount(g) = 0

\* C11 as stated: in every regime, when a delete move is due and the list of
\* arcs it draws from is empty, the step of the sampler is an add proposal on
\* the unchanged graph, never a draw from the empty list
C11_EmptyListFlipsToAdd ==
  [][ DeleteDueOnEmptyList =>
        /\ pc' = "accept"
        /\ smp'.last_kind = "add"
        /\ g' = g ]_vars

\* the ties (arcs in either direction) of node v to the wave before its own
TiesToPrevWave(gr, v) ==
  {a \in ArcSet(gr) :
     \/ a[1] = v /\ zone(a[2]) = zone(v) - 1
     \/ a[2] = v /\ zone(a[1]) = zone(v) - 1}

\* C12: in the snowball regime an add proposal (i,j) has both endpoints among
\* the inner nodes, i # j, the arc absent and zones at most one apart, and a
\* delete proposal removes an arc of the graph between inner nodes whose
\* removal leaves each endpoint that lies one wave after the other endpoint
\* with a tie to its previous wave
C12_SnowballProposals ==
  (Regime = "snowball" /\ pc = "accept") =>
    LET i == smp.i
        j == smp.j
        before == smp.g_before[1]
    IN  /\ i \in inner_nodes /\ j \in inner_nodes
        /\ i # j
        /\ smp.last_kind = "add" =>
             /\ ~isArc(before, i, j)
             /\ Abs(zone(i) - zone(j)) <= 1
             /\ g = before
        /\ smp.last_kind = "del" =>
             /\ isArc(before, i, j)
             /\ ~isArc(g, i, j)
             /\ zone(i) = zone(j) + 1 => TiesToPrevWave(g, i) # {}
             /\ zone(j) = zone(i) + 1 => TiesToPrevWave(g, j) # {}

\* a delete proposal of the snowball regime has removed one of two ties of a
\* node to its previous wave, and the other tie is still there
C12_Witness ==
  /\ Regime = "snowball" /\ pc = "accept"
  /\ smp.last_kind = "del"
  /\ \E v \in {smp.i, smp.j} :
       /\ Cardinality(TiesToPrevWave(smp.g_before[1], v)) = 2
       /\ Cardinality(TiesToPrevWave(g, v)) = 1

\* the arcs of gr sent by nodes that are not of the last term
NonMaxTermSenderArcs(gr) == {a \in ArcSet(gr) : term(a[1]) # max_term}

\* C13: in the citation regime every proposal (i,j), add or delete, has a
\* sender i of the last term and i # j, and no step of the program changes
\* the set of arcs sent by nodes that are not of the last term
C13_CitationSendersOfLastTerm ==
  [][ Regime = "citation" =>
        /\ NonMaxTermSenderArcs(g') = NonMaxTermSenderArcs(g)
        /\ pc' = "accept" =>
             /\ term(smp'.i) = max_term
             /\ smp'.i # smp'.j ]_vars

\* the citation regime has added an arc and then removed an arc, both sent by
\* nodes of the last term, in a graph that holds an arc sent by a node of an
\* earlier term
C13_Witness ==
  /\ Regime = "citation"
  /\ pc = "ifdSampler"
  /\ smp.performMove
  /\ smp.accepted = 2
  /\ smp.last_kind = "del"
  /\ NonMaxTermSenderArcs(g) # {}
  /\ g.num_maxtermsender_arcs > 0

\* C14: in the plain regime with forbidReciprocity an add proposal (i,j) is
\* made only while neither i->j nor j->i is an arc, and when the graph that
\* was loaded has no reciprocated arc (reciprocated0 FALSE) no graph of the
\* run has one
C14_NoReciprocatedArc ==
  (Regime = "plain" /\ cfg.forbidReciprocity) =>
    /\ (pc = "accept" /\ smp.last_kind = "add") =>
         /\ ~isArc(smp.g_before[1], smp.i, smp.j)
         /\ ~isArc(smp.g_before[1], smp.j, smp.i)
         /\ g = smp.g_before[1]
    /\ ~out.reciprocated0 => NoReciprocatedArc(g)

\* with forbidReciprocity an add move was accepted and performed on a graph
\* that held an arc whose reverse was a candidate without the option, and
\* the graph still has no reciprocated arc
C14_Witness ==
  /\ Regime = "plain" /\ cfg.forbidReciprocity
  /\ pc = "ifdSampler"
  /\ smp.performMove
  /\ smp.last_kind = "add" /\ smp.last_accepted
  /\ smp.g_before[1].num_arcs >= 1
  /\ g.num_arcs = smp.g_before[1].num_arcs + 1
  /\ NoReciprocatedArc(g)

\* C15 as stated: for every model the header of the theta file has
\* 1 + (1 with the IFD sampler) + n + 1 names and that of the dzA file
\* 1 + (1 with the IFD sampler) + n names, n the number of parameters written
\* on each data line, and every data line of a file has as many values as
\* the header of the file has names
C15_HeaderNamesEveryColumn ==
  LET ifd == IF cfg.useIFDsampler THEN 1 ELSE 0
  IN  /\ out.theta_header >= 0 => out.theta_header = 1 + ifd + n + 1
      /\ out.dzA_header >= 0 => out.dzA_header = 1 + ifd + n
      /\ out.theta_line >= 0 => out.theta_line = out.theta_header
      /\ out.dzA_line >= 0 => out.dzA_line = out.dzA_header

\* a call of the basic sampler in the plain regime while theta is all zero
BasicCallUnderZeroTheta ==
  /\ ~cfg.useIFDsampler
  /\ Regime = "plain"
  /\ pc \in {"basicSampler", "basic_accept"}
  /\ \A l \in 1 .. n : ~alg.theta_nz[l]

OppositeOfLastAccepted == IF out.accepted_kind = "add" THEN "del" ELSE "add"

\* C17 as stated: in every regime each proposal of the IFD sampler is of the
\* kind opposite to that of the proposal accepted last, in this call or an
\* earlier one, and an add when none was accepted yet
C17_KindsAlternate ==
  pc = "accept" => smp.last_kind = OppositeOfLastAccepted

\* the citation branch finds no arc to delete
NoArcOfLastTermSender ==
  Regime = "citation" /\ smp.g_before[1].num_maxtermsender_arcs = 0

\* C17, amended: each proposal of the IFD sampler is of the kind opposite to
\* that of the proposal accepted last, and an add when none was accepted yet,
\* except that in the citation regime a proposal made while there is no arc
\* sent by a node of the last term is an add
C17_KindsAlternateUnlessNoArc ==
  pc = "accept" =>
    smp.last_kind = IF NoArcOfLastTermSender THEN "add" ELSE OppositeOfLastAccepted

\* the first proposal of a sampler call is a delete, the last proposal that
\* an earlier call accepted having been an add
C17_Witness ==
  /\ pc = "accept"
  /\ smp.k = 0
  /\ out.sampler_calls >= 2
  /\ smp.last_kind = "del"
  /\ out.accepted_kind = "add"

\* C18: during the proposals of a call of the IFD sampler the auxiliary
\* parameter V keeps its value, and the step that ends the call, after the
\* last proposal, lowers V by the step (Ndel - Nadd)^2 (in units of
\* ifd_K / sampler_m^2) when Ndel > Nadd, raises it by that step when
\* Nadd > Ndel and leaves it as it is when Ndel = Nadd
C18_AuxParamUpdatedAtReturn ==
  [][ (pc = "ifdSampler" \/ pc = "accept") =>
        ( LET V == alg.ifd_aux_param
              d == smp.Ndel - smp.Nadd
          IN  IF pc = "ifdSampler" /\ smp.k = smp.sampler_m
              THEN /\ pc' = smp.ret
                   /\ d > 0 => (alg'.ifd_aux_param = V - d * d /\ alg'.ifd_aux_param < V)
                   /\ d < 0 => (alg'.ifd_aux_param = V + d * d /\ alg'.ifd_aux_param > V)
                   /\ d = 0 => alg'.ifd_aux_param = V
              ELSE alg'.ifd_aux_param = V ) ]_vars

\* the first sampler call of Algorithm EE, entered with V = 0, has returned
\* with more delete than add proposals and has lowered V
C18_Witness ==
  /\ pc = "algorithm_EE_ret"
  /\ alg.t = 0
  /\ smp.Ndel > smp.Nadd
  /\ alg.ifd_aux_param = - (smp.Ndel - smp.Nadd) * (smp.Ndel - smp.Nadd)

\* the change statistics of adding i->j to gr, one per position of theta
AddChangeStatistics(gr, i, j) == [l \in 1 .. n |-> changeStatistic(l, gr, i, j)]

Negated(v) == [l \in DOMAIN v |-> - v[l]]

\* C19: the values of a proposal (i,j) of the IFD sampler are computed on a
\* graph that does not hold the arc: for an add they are the add-change
\* statistics on the current graph and total includes +V, for a delete they
\* are the negated add-change statistics on the graph with the arc removed
\* and total includes -V; an accepted proposal adds its values to the
\* accumulator of its kind and leaves the other as it is, a rejected one
\* leaves both, and both are zero when a call begins
C19_ChangeStatsAccumulated ==
  [][ /\ (pc = "ifdSampler" /\ pc' = "accept") =>
           /\ ~isArc(g', smp'.i, smp'.j)
           /\ ArcSet(g') = ArcSet(g) \ {<<smp'.i, smp'.j>>}
           /\ smp'.last_kind = "add" =>
                /\ g' = g
                /\ smp'.changestats = AddChangeStatistics(g, smp'.i, smp'.j)
                /\ smp'.total_aux = alg.ifd_aux_param
           /\ smp'.last_kind = "del" =>
                /\ isArc(g, smp'.i, smp'.j)
                /\ smp'.changestats = Negated(AddChangeStatistics(g', smp'.i, smp'.j))
                /\ smp'.total_aux = - alg.ifd_aux_param
           /\ smp'.addChangeStats = smp.addChangeStats
           /\ smp'.delChangeStats = smp.delChangeStats
      /\ (pc = "accept" /\ smp'.accepted = smp.accepted + 1) =>
           /\ smp'.addChangeStats =
                IF smp.last_kind = "add"
                THEN [l \in 1 .. n |-> smp.addChangeStats[l] + smp.changestats[l]]
                ELSE smp.addChangeStats
           /\ smp'.delChangeStats =
                IF smp.last_kind = "del"
                THEN [l \in 1 .. n |-> smp.delChangeStats[l] + smp.changestats[l]]
                ELSE smp.delChangeStats
      /\ (pc = "accept" /\ smp'.accepted = smp.accepted) =>
           /\ smp'.addChangeStats = smp.addChangeStats
           /\ smp'.delChangeStats = smp.delChangeStats
      /\ (pc \notin {"ifdSampler", "accept"} /\ pc' = "ifdSampler") =>
           /\ smp'.addChangeStats = [l \in 1 .. n |-> 0]
           /\ smp'.delChangeStats = [l \in 1 .. n |-> 0] ]_vars

\* a call of the IFD sampler, made while V is not zero, has accepted a delete
\* move with a change statistic that is not zero and has rejected a proposal
C19_Witness ==
  /\ pc = "ifdSampler"
  /\ smp.k >= 2
  /\ smp.accepted >= 1
  /\ smp.accepted < smp.k
  /\ alg.ifd_aux_param # 0
  /\ \E l \in 1 .. n : smp.delChangeStats[l] < 0

\* the sum over the sampler calls of calls of addChangeStats[l] - delChangeStats[l]
RECURSIVE SumOfCalls(_, _)
SumOfCalls(calls, l) ==
  IF calls = <<>> THEN 0
  ELSE SumOfCalls(SubSeq(calls, 1, Len(calls) - 1), l)
         + calls[Len(calls)][1][l] - calls[Len(calls)][2][l]

\* C20: in Algorithm EE dzA is zero at entry and, after the k-th sampler call
\* of all inner and outer iterations, dzA[l] is the sum over those k calls of
\* addChangeStats[l] - delChangeStats[l]; in Algorithm S dzA[l] is, after
\* each iteration, delChangeStats[l] - addChangeStats[l] of the sampler call
\* of that iteration alone
C20_dzAAccumulates ==
  /\ out.EE_called =>
       /\ Len(out.EE_calls) = alg.t
       /\ \A l \in 1 .. n : alg.dzA[l] = SumOfCalls(out.EE_calls, l)
  /\ (pc = "algorithm_S" /\ ~out.EE_called /\ alg.t >= 1) =>
       \A l \in 1 .. n : alg.dzA[l] = smp.delChangeStats[l] - smp.addChangeStats[l]

\* Algorithm EE has made two sampler calls, each with a difference of the
\* accumulators that is not zero, after an Algorithm S of two iterations
C20_Witness ==
  /\ out.EE_called
  /\ pc = "algorithm_EE"
  /\ Len(out.EE_calls) = 2
  /\ cfg.Ssteps >= 2
  /\ \E l \in 1 .. n :
       /\ out.EE_calls[1][1][l] # out.EE_calls[1][2][l]
       /\ out.EE_calls[2][1][l] # out.EE_calls[2][2][l]
       /\ alg.dzA[l] # 0

\* sign(x) with sign(0) = 0
sign(x) == IF x > 0 THEN 1 ELSE IF x < 0 THEN -1 ELSE 0

\* C21: under the Borisenko rule, after every inner step of Algorithm EE the
\* step of theta[l], in units of learningRate * max(|theta[l]|, minTheta), is
\* -sign(dzA[l]) with sign(0) = 0: downwards when the accumulated dzA[l] > 0,
\* upwards when dzA[l] < 0, and none when dzA[l] is exactly 0
C21_BorisenkoStepIsMinusSign ==
  (cfg.useBorisenkoUpdate /\ out.EE_calls # <<>>) =>
    \A l \in 1 .. n : alg.theta_step[l] = -sign(alg.dzA[l])

\* the lines that Algorithm EE has written so far when it writes one line per
\* outer iteration that has begun, and when it writes one line per inner step
LinesPerOuterIteration ==
  [k \in 1 .. (alg.touter + (IF alg.tinner > 0 THEN 1 ELSE 0)) |-> (k - 1) * cfg.EEinnerSteps]

LinesPerInnerStep == [k \in 1 .. alg.t |-> k - 1]

EEFilesInStep ==
  /\ out.theta_ts = out.dzA_ts
  /\ alg.tinner = 0 =>
       /\ out.theta_flushed = Len(out.theta_ts)
       /\ out.dzA_flushed = Len(out.dzA_ts)

C23_NoFileOpenedOnConfigError ==
  (cfg.mode = "estimate" /\ pc \in {"returned", "exit"} /\ out.rc = -1) =>
    (~out.theta_open /\ ~out.dzA_open)

\* log(a[1] / a[2]) = log(b[1] / b[2])
SameLog(a, b) == a[1] * b[2] = b[1] * a[2]

\* C24: with the IFD sampler, the Arc value of every line of Algorithm S and
\* Algorithm EE is V - log((L - m) / (m + 1)) for the auxiliary parameter V
\* after the sampler call of the line and the arc count m that the graph has
\* when the line is written
C24_ArcValueOfCurrentArcCount ==
  (cfg.useIFDsampler /\ out.line_Arc # <<>>) =>
    SameLog(out.line_Arc[2], out.line_arcCorrection)

C26_FirstKindIsPendingKind ==
  (pc = "accept" /\ smp.k = 0) => smp.last_kind = out.pending_kind

\* C26, amended: as stated, except that in the citation regime the first
\* proposal of a call that finds a delete pending and no arc sent by a node
\* of the last term is an add
C26_FirstKindIsPendingKindUnlessNoArc ==
  (pc = "accept" /\ smp.k = 0) =>
    smp.last_kind = IF NoArcOfLastTermSender THEN "add" ELSE out.pending_kind

\* the first sampler call of Algorithm EE begins with a delete, which the
\* last sampler call of Algorithm S has left pending
C26_Witness ==
  /\ pc = "accept"
  /\ smp.k = 0
  /\ smp.ret = "algorithm_EE_ret"
  /\ out.EE_calls = <<>>
  /\ out.S_called
  /\ smp.performMove
  /\ smp.last_kind = "del"
  /\ out.pending_kind = "del"

\* algorithm_S or algorithm_EE is between two sampler calls
BetweenSamplerCalls ==
  \/ pc = "algorithm_S" \/ pc = "algorithm_S_ret"
  \/ pc = "algorithm_EE" \/ pc = "algorithm_EE_ret"

\* C27: between the sampler calls of Algorithm S and between those of
\* Algorithm EE the auxiliary parameter V keeps the value that the last call
\* left, and the step from Algorithm S into Algorithm EE sets V to 0, so that
\* the first sampler call of Algorithm EE starts with V = 0
C27_AuxParamCarriedWithinAlgorithm ==
  [][ (cfg.useIFDsampler /\ BetweenSamplerCalls) =>
        ( /\ alg'.ifd_aux_param =
               IF pc = "algorithm_S" /\ pc' = "algorithm_EE" THEN 0
               ELSE alg.ifd_aux_param
          /\ (pc = "algorithm_EE" /\ pc' = "ifdSampler" /\ out.EE_calls = <<>>) =>
               alg'.ifd_aux_param = 0 ) ]_vars

\* the first sampler call of Algorithm EE is made with V = 0 after Algorithm S
\* has ended with another value of V, and with that value between two of its
\* sampler calls
C27_Witness ==
  /\ pc = "ifdSampler"
  /\ cfg.useIFDsampler
  /\ smp.ret = "algorithm_EE_ret"
  /\ out.EE_calls = <<>>
  /\ smp.k = 0
  /\ cfg.Ssteps >= 2
  /\ out.S_ifd_aux_param # 0
  /\ alg.ifd_aux_param = 0

\* a sampler call has returned to its caller
SamplerReturned ==
  pc \in {"algorithm_S_ret", "algorithm_EE_ret", "simulate_ergm_ret"}

MaxSmallSteps == 3      \* sampler_m = 1 .. MaxSmallSteps
MaxNearOverflow == 8    \* sampler_m within MaxNearOverflow of SqrtIntMax

\* the width of int, and the largest int whose square is an int
IntBits == 32

SqrtIntMax == 46340

RECURSIVE Sum(_)
Sum(s) == IF s = <<>> THEN 0 ELSE Head(s) + Sum(Tail(s))

\* the four bytes of an int x >= 0
Bytes4(x) ==
  <<x % 256, (x \div 256) % 256, (x \div 65536) % 256, (x \div 16777216) % 256>>

\* the sum of the products of the bytes of a and b that weigh 256^k
Column(a, b, k) ==
  Sum([i \in 1 .. 4 |-> IF (k + 2 - i) \in 1 .. 4 THEN a[i] * b[k + 2 - i] ELSE 0])

RECURSIVE Propagate(_, _, _, _)
Propagate(a, b, k, carry) ==
  IF k = 8 THEN <<>>
  ELSE LET c == (IF k <= 6 THEN Column(a, b, k) ELSE 0) + carry
       IN  <<c % 256>> \o Propagate(a, b, k + 1, c \div 256)

\* the exact product of two int x, y >= 0, in eight bytes
Product64(x, y) == Propagate(Bytes4(x), Bytes4(y), 0, 0)

\* x * y in int arithmetic does not fit an int
int_mul_overflows(x, y) ==
  LET p == Product64(x, y)
  IN  p[IntBits \div 8] >= 128 \/ \E k \in (IntBits \div 8 + 1) .. 8 : p[k] # 0

\* the bytes of x * y in int arithmetic, wrapped around on overflow
int_mul(x, y) == SubSeq(Product64(x, y), 1, IntBits \div 8)

\* ifd_aux_param_step / ifd_K: the numerator is computed in double (exact for
\* these counts), the denominator in int
ifd_aux_param_step_int(Ndel, Nadd) ==
  [ num |-> Product64(Abs(Ndel - Nadd), Abs(Ndel - Nadd)),
    den |-> int_mul(Ndel + Nadd, Ndel + Nadd) ]

\* the sampler has made its sampler_m proposals, Ndel of them delete moves
SamplerSteps == (1 .. MaxSmallSteps)
                  \cup ((SqrtIntMax - MaxNearOverflow) .. (SqrtIntMax + MaxNearOverflow))

InitStep ==
  /\ cfg = BaseConfig
  /\ g = EmptyGraph(MaxNodes)
  /\ isDelete = FALSE
  /\ pc = "ifd_aux_param_step"
  /\ \E m \in SamplerSteps :
       \E d \in {0, 1, m \div 2, m - 1, m} :
         smp = [NoSmp EXCEPT !.sampler_m = m, !.k = m, !.Ndel = d, !.Nadd = m - d]
  /\ alg = NoAlg
  /\ out = NoOut

\* the step is computed; an int product that overflows wraps around
ifdSampler_step ==
  /\ pc = "ifd_aux_param_step"
  /\ alg' = [alg EXCEPT !.ifd_aux_param_step = ifd_aux_param_step_int(smp.Ndel, smp.Nadd)]
  /\ pc' = "stepped"
  /\ UNCHANGED <<cfg, g, isDelete, smp, out>>

\* an int product that overflows traps (signed overflow is undefined)
ifdSampler_step_trap ==
  /\ pc = "ifd_aux_param_step"
  /\ int_mul_overflows(smp.Ndel + smp.Nadd, smp.Ndel + smp.Nadd)
  /\ pc' = "aborted"
  /\ UNCHANGED <<cfg, g, isDelete, smp, alg, out>>

NextStep == ifdSampler_step \/ ifdSampler_step_trap

SpecStep == InitStep /\ [][NextStep]_vars

\* C29: for every sampler_m the counters Ndel and Nadd are within the range
\* of int, the product (Ndel+Nadd)*(Ndel+Nadd) is computed without overflow,
\* and the step of V is ifd_K * (Ndel-Nadd)^2 / (Ndel+Nadd)^2 of the true
\* counts
C29_StepOfTrueCounts ==
  pc \in {"stepped", "aborted"} =>
    /\ pc = "stepped"
    /\ smp.Ndel + smp.Nadd = smp.sampler_m
    /\ smp.Ndel <= 2147483647 /\ smp.Nadd <= 2147483647
    /\ alg.ifd_aux_param_step.num =
         Product64(Abs(smp.Ndel - smp.Nadd), Abs(smp.Ndel - smp.Nadd))
    /\ alg.ifd_aux_param_step.den \o <<0, 0, 0, 0>> =
         Product64(smp.sampler_m, smp.sampler_m)

(***************************************************************************)
(* SpecLoop: the proposal loops of ifdSampler draw by draw, in Algorithm S *)
(* on sparse and on dense graphs.  A draw that fails the test of its       *)
(* do-while loop is followed by another draw; under fair random choice a   *)
(* pair or arc that passes the test is drawn eventually if there is one.   *)
(***************************************************************************)
\* the pairs that an add move draws from
AddDraws ==
  IF Regime = "snowball" THEN inner_nodes \X inner_nodes
  ELSE IF Regime = "citation" THEN maxterm_nodes \X Nodes
  ELSE Nodes \X Nodes

\* an add move draws a pair on which its do-while loops do not end
ifdSampler_resample_add ==
  /\ pc = "ifdSampler"
  /\ smp.k < smp.sampler_m
  /\ SamplerAssertFails => cfg.NDEBUG
  /\ ~isDelete \/ (Regime = "citation" /\ g.num_maxtermsender_arcs = 0)
  /\ \E p \in AddDraws \ AddCandidates(g) :
       smp' = [smp EXCEPT !.i = p[1], !.j = p[2]]
  /\ isDelete' = FALSE
  /\ UNCHANGED <<cfg, g, pc, alg, out>>

\* a snowball delete move draws an arc that is the last tie of a node to the
\* preceding wave
ifdSampler_resample_delete ==
  /\ pc = "ifdSampler"
  /\ smp.k < smp.sampler_m
  /\ SamplerAssertFails => cfg.NDEBUG
  /\ isDelete
  /\ \E arcidx \in 1 .. DeleteCount(g) :
       LET i == DeleteList(g)[arcidx][1]
           j == DeleteList(g)[arcidx][2]
       IN  /\ ~DeleteOK(g, i, j)
           /\ smp' = [smp EXCEPT !.i = i, !.j = j, !.arcidx = arcidx]
  /\ UNCHANGED <<cfg, g, isDelete, pc, alg, out>>

\* estimation with the plain and the snowball regime, without options
LoopConfigs ==
  { [ c EXCEPT !.samplerSteps = m ] :
      c \in {BaseConfig} \cup WaveConfigs, m \in 1 .. MaxSamplerSteps }

\* the complete graph and the graphs with one arc less, the empty graph and
\* a graph of two arcs
LoopArcLists ==
  { SeqOfArcs(ArcsOf(MaxNodes) \ T) :
      T \in {U \in SUBSET ArcsOf(MaxNodes) : Cardinality(U) <= 1} }
    \cup {<<>>, SomeArcs}

InitLoop ==
  /\ cfg \in LoopConfigs
  /\ \E arcs \in (IF cfg.useConditionalEstimation THEN WaveArcLists ELSE LoopArcLists) :
       g = load_digraph_from_arclist_file(cfg.num_nodes, arcs)
  /\ isDelete = FALSE
  /\ pc = "start"
  /\ smp = NoSmp
  /\ alg = NoAlg
  /\ out = [NoOut EXCEPT !.m0 = g.num_arcs, !.reciprocated0 = ~NoReciprocatedArc(g)]

NextLoop ==
  \/ do_estimation_ee_estimate
  \/ ee_estimate_algorithm_S
  \/ algorithm_S_call
  \/ algorithm_S_update
  \/ ifdSampler_propose_add
  \/ ifdSampler_propose_delete
  \/ ifdSampler_resample_add
  \/ ifdSampler_resample_delete
  \/ ifdSampler_delete_empty
  \/ ifdSampler_accept
  \/ ifdSampler_reject
  \/ ifdSampler_return

\* the process keeps running, and a draw that ends a proposal loop is made
\* eventually while there is one
SpecLoop ==
  /\ InitLoop
  /\ [][NextLoop]_vars
  /\ WF_vars(NextLoop)
  /\ WF_vars(ifdSampler_propose_add)
  /\ WF_vars(ifdSampler_propose_delete)

\* the sampler is in the proposal loop of an add or a delete move
InProposalLoop == pc = "ifdSampler" /\ smp.k < smp.sampler_m

\* C30: under fair random choice every proposal loop of the IFD sampler ends,
\* in a proposal, on every graph that the sampler is called with, complete
\* graphs and graphs in which every inner arc is a last tie to the preceding
\* wave included
C30_ProposalLoopsTerminate == InProposalLoop ~> ~InProposalLoop

====
